---- MODULE Spec2Model ----
(***************************************************************************)
(* Model of the local swarm of testsuite/forge/src/backend/local/swarm.rs: *)
(* the LocalSwarm runtime (launch, wait_for_startup, topology mutation)    *)
(* and its SwarmDirectory.  A single caller owns the swarm (&mut self), so *)
(* one operation runs at a time; an operation that makes several calls to  *)
(* its collaborators (node handles, config generation) is a chain of steps *)
(* selected by pc, and no other operation starts until it has returned.    *)
(***************************************************************************)
EXTENDS Integers, Sequences, FiniteSets

\* ---- bounds of the model ----
MaxValidators == 2
MaxPfn == 1
MaxCounter == 3

\* ---- constants of the program ----
NumAttempts == 10
PollCountOverride == 30

VARIABLES
    validators,         \* LocalSwarm.validators: PeerId -> LocalNode
    disk,               \* the configuration persisted at each validator's config_path
    fullnodes,          \* LocalSwarm.fullnodes: PeerId -> LocalNode
    node_name_counter,  \* LocalSwarm.node_name_counter
    dir,                \* LocalSwarm.dir: SwarmDirectory
    builder,            \* the LocalSwarmBuilder, until build consumes it
    genesis,            \* LocalSwarm.genesis: the genesis transaction
    genesis_waypoint,   \* LocalSwarm.genesis_waypoint
    pc,                 \* position of the caller: "idle", inside an operation, or "dropped"
    avf,                \* locals of add_validator_fullnode while it runs
    ws,                 \* locals of launch / wait_for_startup while they run
    answer,             \* what the collaborator call launch is about to make will answer
    ret,                \* the last call: its arguments and what it returned
    log,                \* collaborator calls made by the current topology operation
    names,              \* every node name generated so far, in order
    pairings            \* per validator, how many add_validator_fullnode calls succeeded

vars == <<validators, disk, fullnodes, node_name_counter, dir, builder, genesis,
          genesis_waypoint,
          pc, avf, ws, answer, ret, log, names, pairings>>

\* ---- value spaces ----
PeerIds == 1..(MaxValidators + MaxPfn)
PfnIds == (MaxValidators + 1)..(MaxValidators + MaxPfn)
\* the labels of the version registry (LocalSwarm.versions, fixed at build), and
\* the labels a caller may pass: those and one that is not in the registry
versions == {"v1", "v2"}
VersionLabels == versions \cup {"v0"}
HealthOutcomes == {"Ok", "Unknown", "NotRunning", "Failure"}
CallOutcomes == {"Ok", "Err"}

\* u64::to_string: the decimal digits of n
RECURSIVE ToString(_)
ToString(n) == IF n < 10 THEN <<n>> ELSE ToString(n \div 10) \o <<n % 10>>

Orders(S) ==
    {f \in [1..Cardinality(S) -> S] : \A a, b \in 1..Cardinality(S) : f[a] = f[b] => a = b}

DefaultConfig == [vfn |-> <<>>]

NoAvf == [vid |-> 0, version |-> "", name |-> <<>>, validator_config |-> DefaultConfig,
          fullnode_config |-> <<>>, peer_id |-> 0, before |-> <<>>]
NoWs == [order |-> <<>>, k |-> 0, i |-> 0, j |-> 0, done |-> <<>>, probed |-> {},
         failure |-> FALSE, late |-> FALSE]
NoRet == [op |-> "none", id |-> 0, version |-> "", status |-> "none", err |-> "", val |-> 0,
          cause |-> "", round |-> 0, path |-> "", was |-> ""]

\* a call of op(id, version) that is running, or that returned Ok(val), Err(e), or panicked
Running(op, id, version) == [NoRet EXCEPT !.op = op, !.id = id, !.version = version]
Ok(op, id, version, val) ==
    [Running(op, id, version) EXCEPT !.status = "ok", !.val = val]
Err(op, id, version, e) ==
    [Running(op, id, version) EXCEPT !.status = "err", !.err = e]
Panic(op, id, version, e) ==
    [Running(op, id, version) EXCEPT !.status = "panic", !.err = e]
Call(c, n, r) == [call |-> c, node |-> n, res |-> r]
Res(ok) == IF ok THEN "Ok" ELSE "Err"

\* ---- SwarmDirectory ----
\* the directory build makes: Persistent(dir) at the path the builder was given,
\* or Temporary(TempDir::new()) at a path of the system's temporary directory
NewDirectory(mode) ==
    [kind |-> mode, path |-> IF mode = "Persistent" THEN "swarm_dir" ELSE "tmp_dir"]

\* into_persistent that leaves the placeholder of line 40 in place
into_persistent_Placeholder(d) == [kind |-> "Persistent", path |-> ""]

\* lines 47-52; TempDir::into_path keeps the directory and gives its path
into_persistent(d) == [kind |-> "Persistent", path |-> d.path]

\* persist that also turns a persistent directory back into a temporary one
persist_Toggle(d) ==
    IF d.kind = "Persistent" THEN [kind |-> "Temporary", path |-> d.path] ELSE into_persistent(d)

\* lines 36-45
persist(d) == IF d.kind = "Persistent" THEN d ELSE into_persistent(d)

\* ---- the node handle (LocalNode), an external collaborator ----
NodeStart(node, ok) == [node EXCEPT !.running = ok]
NodeStop(node) == [node EXCEPT !.running = FALSE]
NodeRestart(node, ok) == NodeStart(NodeStop(node), ok)
NodeUpgrade(node, version, ok) == NodeStart([NodeStop(node) EXCEPT !.version = version], ok)
NewNode(version, fullnode_config) ==
    [version |-> version, name |-> fullnode_config.name, config |-> fullnode_config,
     running |-> FALSE]

\* aptos_genesis::builder::Builder::build derives the genesis transaction and
\* its waypoint from the validators of the swarm.
GenesisBuilder(n) == [genesis |-> <<"genesis", n>>, waypoint |-> <<"waypoint", n>>]

\* FullnodeNodeConfig::validator_fullnode and public_fullnode return the
\* configuration of a new full node, rooted at the waypoint and the genesis
\* transaction they are given.
FullnodeNodeConfig(name, waypoint, genesis_txn) ==
    [name |-> name, waypoint |-> waypoint, genesis |-> genesis_txn]

\* FullnodeNodeConfig::validator_fullnode links the new full node into the
\* validator's configuration.
LinkVfn(config, name) == [config EXCEPT !.vfn = name]

\* ---- LocalSwarmBuilder ----
\* None of Option<Version> and of Option<PathBuf>
None == ""

\* the poll counts a template may carry: below, at and above the override
PollCounts == {PollCountOverride - 1, PollCountOverride, PollCountOverride + 1}

\* NodeConfig::default_for_validator, as far as build reads it: the template's
\* consensus.quorum_store_poll_count, which the override of build adjusts upward
default_for_validator ==
    [quorum_store_poll_count |-> CHOOSE p \in PollCounts : p < PollCountOverride]

NoBuilder == [versions |-> {}, initial_version |-> None, number_of_validators |-> 0,
              dir |-> None, template |-> <<>>]

\* lines 86-96: LocalSwarmBuilder::new
LocalSwarmBuilder(reg) ==
    [versions |-> reg, initial_version |-> None, number_of_validators |-> 1, dir |-> None,
     template |-> default_for_validator]

\* the version labels in their order (Ord for Version), and the rank of one
VersionOrder == <<"v0", "v1", "v2">>

VersionRank(v) == CHOOSE k \in 1..Len(VersionOrder) : VersionOrder[k] = v

\* lines 164-166: versions.iter().max_by(..), None for an empty registry
MaxVersion(reg) ==
    IF reg = {} THEN None
    ELSE CHOOSE v \in reg : \A w \in reg : VersionRank(w) <= VersionRank(v)

\* lines 163-171: the initial version of build: the one selected or else the
\* greatest of the registry, then looked up in the registry; each lookup is
\* unwrapped, so a miss is a panic
InitialVersion(b) ==
    LET selected == IF b.initial_version # None THEN b.initial_version
                    ELSE MaxVersion(b.versions)
    IN  IF selected \in b.versions
          THEN [status |-> "ok", version |-> selected]
          ELSE [status |-> "panic", version |-> selected]

\* lines 132-140: the mode of the working directory
DirectoryMode(b) == IF b.dir # None THEN "Persistent" ELSE "Temporary"

\* lines 173-198: the swarm that build returns
LocalSwarm(n, version, mode) ==
    [validators |-> [v \in 1..n |->
                        [version |-> version, config |-> DefaultConfig, running |-> FALSE]],
     disk |-> [v \in 1..n |-> DefaultConfig],
     fullnodes |-> <<>>,
     node_name_counter |-> n,
     dir |-> NewDirectory(mode),
     genesis |-> GenesisBuilder(n).genesis,
     genesis_waypoint |-> GenesisBuilder(n).waypoint]

\* no swarm: the values of the swarm's variables while there is none
NoSwarm ==
    [validators |-> <<>>, disk |-> <<>>, fullnodes |-> <<>>, node_name_counter |-> 0,
     dir |-> [kind |-> "none", path |-> None], genesis |-> <<>>, genesis_waypoint |-> <<>>]

\* the swarm's variables are those of the swarm s
IsSwarm(s) ==
    /\ validators = s.validators
    /\ disk = s.disk
    /\ fullnodes = s.fullnodes
    /\ node_name_counter = s.node_name_counter
    /\ dir = s.dir
    /\ genesis = s.genesis
    /\ genesis_waypoint = s.genesis_waypoint

\* a swarm that build has returned, for a builder with the registry versions
Init ==
    \E n \in 1..MaxValidators, iv \in versions, mode \in {"Persistent", "Temporary"} :
        /\ IsSwarm(LocalSwarm(n, iv, mode))
        /\ builder = NoBuilder
        /\ pc = "idle"
        /\ avf = NoAvf
        /\ ws = NoWs
        /\ answer = "none"
        /\ ret = NoRet
        /\ log = <<>>
        /\ names = <<>>
        /\ pairings = [v \in 1..n |-> 0]

NumValidators == Cardinality(DOMAIN validators)

\* ---- the builder's methods ----
\* a builder made by LocalSwarm::builder(versions), and no swarm yet
BuildInit ==
    \E reg \in SUBSET VersionLabels :
        /\ builder = LocalSwarmBuilder(reg)
        /\ IsSwarm(NoSwarm)
        /\ pc = "builder"
        /\ avf = NoAvf
        /\ ws = NoWs
        /\ answer = "none"
        /\ ret = NoRet
        /\ log = <<>>
        /\ names = <<>>
        /\ pairings = <<>>

\* lines 98-101
initial_version(version) ==
    /\ pc = "builder"
    /\ builder' = [builder EXCEPT !.initial_version = version]
    /\ UNCHANGED <<validators, disk, fullnodes, node_name_counter, dir, genesis,
                   genesis_waypoint, pc, avf, ws, answer, ret, log, names, pairings>>

\* lines 108-111
number_of_validators(n) ==
    /\ pc = "builder"
    /\ builder' = [builder EXCEPT !.number_of_validators = n]
    /\ UNCHANGED <<validators, disk, fullnodes, node_name_counter, dir, genesis,
                   genesis_waypoint, pc, avf, ws, answer, ret, log, names, pairings>>

\* lines 113-116: dir
builder_dir(path) ==
    /\ pc = "builder"
    /\ builder' = [builder EXCEPT !.dir = path]
    /\ UNCHANGED <<validators, disk, fullnodes, node_name_counter, dir, genesis,
                   genesis_waypoint, pc, avf, ws, answer, ret, log, names, pairings>>

\* lines 103-106
template(t) ==
    /\ pc = "builder"
    /\ builder' = [builder EXCEPT !.template = t]
    /\ UNCHANGED <<validators, disk, fullnodes, node_name_counter, dir, genesis,
                   genesis_waypoint, pc, avf, ws, answer, ret, log, names, pairings>>

\* BuildTemplate with the override applied whatever the number of validators
BuildTemplate_Always(b) == [b.template EXCEPT !.quorum_store_poll_count = PollCountOverride]

\* lines 144-147: the template that build hands to the genesis builder
BuildTemplate(b) ==
    IF b.number_of_validators = 1
      THEN [b.template EXCEPT !.quorum_store_poll_count = PollCountOverride]
      ELSE b.template

\* lines 149-158: the call of the genesis builder, made once the directory exists
BuildLog(b, fails) ==
    IF fails = "dir" THEN <<>>
    ELSE <<[call |-> "aptos_genesis::builder::Builder::build",
            node |-> b.number_of_validators,
            res |-> Res(fails # "genesis"),
            template |-> BuildTemplate(b)]>>

\* lines 128-199: what build comes to for the builder b.  fails: "dir" (making the
\* directory fails), "genesis" (the genesis builder fails), "new" (LocalNode::new
\* fails) or "none"; the steps are in the order of the code.
BuildResult(b, fails) ==
    LET iv == InitialVersion(b)
        failed(status, e) == [status |-> status, err |-> e, version |-> iv.version,
                              swarm |-> NoSwarm]
    IN  IF fails = "dir" THEN failed("err", "dir")
        ELSE IF fails = "genesis" THEN failed("err", "genesis")
        ELSE IF iv.status = "panic" THEN failed("panic", "unwrap on None")
        ELSE IF fails = "new" THEN failed("err", "LocalNode::new")
        ELSE [status |-> "ok", err |-> "", version |-> iv.version,
              swarm |-> LocalSwarm(b.number_of_validators, iv.version, DirectoryMode(b))]

build(fails) ==
    /\ pc = "builder"
    /\ LET r == BuildResult(builder, fails)
       IN  /\ validators' = r.swarm.validators
           /\ disk' = r.swarm.disk
           /\ fullnodes' = r.swarm.fullnodes
           /\ node_name_counter' = r.swarm.node_name_counter
           /\ dir' = r.swarm.dir
           /\ genesis' = r.swarm.genesis
           /\ genesis_waypoint' = r.swarm.genesis_waypoint
           /\ pairings' = [v \in DOMAIN r.swarm.validators |-> 0]
           /\ ret' = [Running("build", 0, r.version) EXCEPT
                         !.status = r.status, !.err = r.err,
                         !.val = builder.number_of_validators]
           /\ pc' = IF r.status = "ok" THEN "idle" ELSE "failed"
    /\ log' = BuildLog(builder, fails)
    /\ builder' = NoBuilder
    /\ UNCHANGED <<avf, ws, answer, names>>

BuildNext ==
    \/ \E version \in VersionLabels : initial_version(version)
    \/ \E n \in 1..MaxValidators : number_of_validators(n)
    \/ builder_dir("swarm_dir")
    \/ \E p \in PollCounts : template([quorum_store_poll_count |-> p])
    \/ \E fails \in {"none", "dir", "genesis", "new"} : build(fails)

BuildSpec == BuildInit /\ [][BuildNext]_vars

\* ---- launch ----

\* launch is the initial startup sequence of a swarm: it runs as the first
\* operation on the swarm built in Init, or not at all.  validators.values_mut()
\* visits the map, which launch does not modify, in the same order every time.
Launch ==
    /\ pc = "idle"
    /\ ret = NoRet
    /\ pc' = "launch_start"
    /\ \E ord \in Orders(DOMAIN validators) : ws' = [NoWs EXCEPT !.order = ord, !.k = 1]
    /\ answer' \in CallOutcomes
    /\ ret' = Running("launch", 0, "")
    /\ log' = <<>>
    /\ UNCHANGED <<builder, genesis, genesis_waypoint, validators, disk, fullnodes, node_name_counter, dir, avf,
                   names, pairings>>

\* what launch returns when it fails: the error, the node it names, and with it
\* the answer that made it fail and the round of wait_for_startup it came in
LaunchErr(e, node) == [Err("launch", 0, "", e) EXCEPT !.val = node, !.cause = answer, !.round = ws.i]

\* Propagate with the error dropped
Propagate_Ignore(outcome) == FALSE

\* the ? of lines 224 and 229-231: an Err ends launch and is returned
Propagate(outcome) == outcome # "Ok"

\* lines 223-225: one iteration of the loop that starts every validator; after the
\* last one, line 239 of wait_for_startup
LaunchStart ==
    /\ pc = "launch_start"
    /\ validators' = [validators EXCEPT ![ws.order[ws.k]] = NodeStart(@, answer = "Ok")]
    /\ IF Propagate(answer)
         THEN /\ ret' = LaunchErr("start", ws.order[ws.k])
              /\ pc' = "idle"
              /\ ws' = NoWs
              /\ answer' = "none"
         ELSE IF ws.k < Len(ws.order)
         THEN /\ ws' = [ws EXCEPT !.k = ws.k + 1]
              /\ answer' \in CallOutcomes
              /\ UNCHANGED <<pc, ret>>
         ELSE /\ ws' = [ws EXCEPT !.k = 0, !.j = 1, !.done = [x \in 1..NumValidators |-> FALSE]]
              /\ pc' = "ws_probe"
              /\ answer' \in HealthOutcomes
              /\ ret' = ret
    /\ UNCHANGED <<builder, genesis, genesis_waypoint, disk, fullnodes, node_name_counter, dir, avf, log, names,
                   pairings>>

\* NextPending without the continue for the validators that are done
NextPending_NoSkip(done, j) == IF j <= Len(done) THEN j ELSE Len(done) + 1

\* the position of the first validator at or after position j that is not done
\* (the inner loop of wait_for_startup skips the done ones with continue)
NextPending(done, j) ==
    IF \E x \in j..Len(done) : ~done[x]
      THEN CHOOSE x \in j..Len(done) : ~done[x] /\ \A y \in j..(x - 1) : done[y]
      ELSE Len(done) + 1

\* HealthAction with NotRunning retried like a transient failure
HealthAction_RetryNotRunning(outcome) ==
    CASE outcome = "Ok" -> "done"
      [] outcome = "Unknown" -> "return"
      [] outcome = "NotRunning" -> "break"
      [] outcome = "Failure" -> "break"

\* HealthAction with a transient failure ending the wait
HealthAction_FailureFatal(outcome) ==
    CASE outcome = "Ok" -> "done"
      [] outcome = "Unknown" -> "return"
      [] outcome = "NotRunning" -> "return"
      [] outcome = "Failure" -> "return"

\* HealthAction with Unknown retried like a transient failure
HealthAction_RetryUnknown(outcome) ==
    CASE outcome = "Ok" -> "done"
      [] outcome = "Unknown" -> "break"
      [] outcome = "NotRunning" -> "return"
      [] outcome = "Failure" -> "break"

\* lines 246-267: what wait_for_startup does with the result of a health check
HealthAction(outcome) ==
    CASE outcome = "Ok" -> "done"
      [] outcome = "Unknown" -> "return"
      [] outcome = "NotRunning" -> "return"
      [] outcome = "Failure" -> "break"

\* MarkDone with the flags not zipped with the nodes
MarkDone_First(done, j) == [done EXCEPT ![1] = TRUE]

\* line 247: *done = true, for the flag zipped with the node
MarkDone(done, j) == [done EXCEPT ![j] = TRUE]

\* line 271
AllDone(done) == \A x \in 1..Len(done) : done[x]

\* MoreAttempts with one attempt too many
MoreAttempts_OneMore(i) == i + 1 <= NumAttempts

\* line 240: for i in 0..num_attempts
MoreAttempts(i) == i + 1 < NumAttempts

\* line 228: the deadline of launch is an Instant taken before wait_for_startup.
\* late says that Instant::now() is past it.  An await (a health check, the
\* sleep) takes time, so after one the deadline may have passed; once passed it
\* stays passed.
Elapsed(late) == {late, TRUE}

\* lines 242-268: the health check of the next validator that is not done
WsProbe ==
    /\ pc = "ws_probe"
    /\ LET node == ws.order[ws.j]
           probed == ws.probed \cup {node}
       IN  CASE HealthAction(answer) = "done" ->
                  LET done == MarkDone(ws.done, ws.j)
                      j == NextPending(done, ws.j + 1)
                  IN  /\ \E late \in Elapsed(ws.late) :
                             ws' = [ws EXCEPT !.done = done, !.j = j, !.probed = probed,
                                              !.late = late]
                      /\ IF j <= Len(done)
                           THEN /\ pc' = "ws_probe"
                                /\ answer' \in HealthOutcomes
                           ELSE /\ pc' = "ws_check"
                                /\ answer' = "none"
                      /\ ret' = ret
            [] HealthAction(answer) = "return" ->
                  /\ ret' = LaunchErr("is not running", node)
                  /\ pc' = "idle"
                  /\ ws' = NoWs
                  /\ answer' = "none"
            [] HealthAction(answer) = "break" ->
                  /\ \E late \in Elapsed(ws.late) :
                         ws' = [ws EXCEPT !.probed = probed, !.failure = TRUE, !.late = late]
                  /\ pc' = "ws_check"
                  /\ answer' = "none"
                  /\ ret' = ret
    /\ UNCHANGED <<builder, genesis, genesis_waypoint, validators, disk, fullnodes, node_name_counter, dir, avf,
                   log, names, pairings>>

\* lines 270-278: the end of a round: return, or sleep and go to the next round
WsCheck ==
    /\ pc = "ws_check"
    /\ IF AllDone(ws.done)
         THEN /\ pc' = "connectivity"
              /\ ws' = ws
              /\ answer' \in CallOutcomes
              /\ ret' = ret
         ELSE IF MoreAttempts(ws.i)
         THEN /\ \E late \in Elapsed(ws.late) :
                    ws' = [ws EXCEPT !.i = ws.i + 1, !.j = NextPending(ws.done, 1),
                                     !.probed = {}, !.failure = FALSE, !.late = late]
              /\ pc' = "ws_probe"
              /\ answer' \in HealthOutcomes
              /\ ret' = ret
         ELSE /\ ret' = [LaunchErr("Launching Swarm timed out", 0) EXCEPT
                            !.cause = IF ws.failure THEN "Failure" ELSE "none"]
              /\ pc' = "idle"
              /\ ws' = NoWs
              /\ answer' = "none"
    /\ UNCHANGED <<builder, genesis, genesis_waypoint, validators, disk, fullnodes, node_name_counter, dir, avf,
                   log, names, pairings>>

\* line 230: wait_for_connectivity
Connectivity ==
    /\ pc = "connectivity"
    /\ IF ~Propagate(answer)
         THEN /\ pc' = "liveness"
              /\ answer' \in CallOutcomes
              /\ UNCHANGED <<ret, ws>>
         ELSE /\ ret' = LaunchErr("wait_for_connectivity", 0)
              /\ pc' = "idle"
              /\ answer' = "none"
              /\ ws' = NoWs
    /\ UNCHANGED <<builder, genesis, genesis_waypoint, validators, disk, fullnodes, node_name_counter, dir, avf,
                   log, names, pairings>>

\* lines 231-234: liveness_check, then success
Liveness ==
    /\ pc = "liveness"
    /\ ret' = IF ~Propagate(answer)
                THEN [Ok("launch", 0, "", 0) EXCEPT !.round = ws.i]
                ELSE LaunchErr("liveness_check", 0)
    /\ pc' = "idle"
    /\ answer' = "none"
    /\ ws' = NoWs
    /\ UNCHANGED <<builder, genesis, genesis_waypoint, validators, disk, fullnodes, node_name_counter, dir, avf,
                   log, names, pairings>>

\* ---- logs_location and Drop ----
\* logs_location_dir without the promotion
logs_location_dir_NoPersist(d) == d

\* line 499: logs_location promotes the directory
logs_location_dir(d) == persist(d)

\* lines 393-397: Drop for LocalSwarm calls logs_location when the thread is
\* panicking, and does nothing otherwise.  A panic inside an operation unwinds
\* and drops the swarm.
drop(d, panicking) == IF panicking THEN logs_location_dir(d) ELSE d

\* Unimplemented as a call that returns Ok and does nothing
Unimplemented_Noop == "ok"

\* lines 463, 467: the status of a call that runs into todo!() is a panic
Unimplemented == "panic"

\* lines 304-305 and 336-337: the waypoint and the genesis transaction that
\* config generation is given are the swarm's own
genesis_args_Default == [waypoint |-> <<>>, genesis |-> <<>>]

genesis_args == [waypoint |-> genesis_waypoint, genesis |-> genesis]

\* ---- add_validator_fullnode ----

\* AvfCheck without the check for an existing full node
AvfCheck_NoDup(vs, fns, validator_peer_id) ==
    IF validator_peer_id \notin DOMAIN vs THEN "no validator with peer_id" ELSE "proceed"

\* lines 287-294: the lookup of the validator and the check for an existing full node
AvfCheck(vs, fns, validator_peer_id) ==
    IF validator_peer_id \notin DOMAIN vs THEN "no validator with peer_id"
    ELSE IF validator_peer_id \in DOMAIN fns THEN "already configured"
    ELSE "proceed"

\* AllocatesName with the name taken before the check for an existing full node
AllocatesName_BeforeDup(check) == check \in {"proceed", "already configured"}

\* AllocatesName with the name taken before the lookup of the validator
AllocatesName_BeforeLookup(check) == check \in {"proceed", "no validator with peer_id"}

\* lines 297-298 (and 330-331): the name is taken only once the checks have passed
AllocatesName(check) == check = "proceed"

\* NextCounter without the increment
NextCounter_Stuck(c) == c

\* line 298 (and 331): self.node_name_counter += 1
NextCounter(c) == c + 1

\* SaveConfig that writes nothing
SaveConfig_Skip(d, validator_peer_id, config) == d

\* SaveConfig that writes the default configuration instead of the one given
SaveConfig_Default(d, validator_peer_id, config) ==
    [d EXCEPT ![validator_peer_id] = DefaultConfig]

\* line 309: validator_config.save(validator.config_path())
SaveConfig(d, validator_peer_id, config) == [d EXCEPT ![validator_peer_id] = config]

\* NodeConfig::save: a save that returns Ok has written the file, a save that
\* returns an error has left the file as it was
NodeConfigSave(d, validator_peer_id, config, ok) ==
    IF ok THEN SaveConfig(d, validator_peer_id, config) ELSE d

\* Try with the error ignored
Try_Ignore(ok, next) == next

\* lines 309, 311: the ? after save and after restart
Try(ok, next) == IF ok THEN next ELSE "idle"

\* line 324 (and 350): self.fullnodes.insert(peer_id, fullnode)
Insert(fns, peer_id, node) ==
    [p \in (DOMAIN fns) \cup {peer_id} |-> IF p = peer_id THEN node ELSE fns[p]]

\* lines 287-306: lookup, duplicate check, name, config generation
AddValidatorFullnode(version, validator_peer_id, genOk) ==
    /\ pc = "idle"
    /\ LET check == AvfCheck(validators, fullnodes, validator_peer_id)
           name == ToString(node_name_counter)
       IN  /\ IF AllocatesName(check)
                THEN /\ node_name_counter < MaxCounter
                     /\ node_name_counter' = NextCounter(node_name_counter)
                     /\ names' = Append(names, name)
                ELSE UNCHANGED <<node_name_counter, names>>
           /\ IF check # "proceed"
                THEN /\ genOk
                     /\ ret' = Err("add_validator_fullnode", validator_peer_id, "", check)
                     /\ log' = <<>>
                     /\ UNCHANGED <<avf, pc>>
                ELSE /\ log' = <<Call("validator_fullnode", validator_peer_id, Res(genOk))>>
                     /\ IF genOk
                          THEN /\ avf' = [vid |-> validator_peer_id, version |-> version,
                                          name |-> name,
                                          validator_config |->
                                              LinkVfn(validators[validator_peer_id].config, name),
                                          fullnode_config |->
                                              FullnodeNodeConfig(name, genesis_args.waypoint,
                                                                 genesis_args.genesis),
                                          peer_id |-> 0,
                                          before |-> [validators |-> validators, disk |-> disk]]
                               /\ pc' = "avf_save"
                               /\ ret' = Running("add_validator_fullnode", validator_peer_id, "")
                          ELSE /\ ret' = Err("add_validator_fullnode", validator_peer_id, "",
                                             "validator_fullnode")
                               /\ UNCHANGED <<avf, pc>>
    /\ UNCHANGED <<builder, genesis, genesis_waypoint, validators, disk, fullnodes, dir, ws, answer, pairings>>

\* lines 308-310: save the validator's configuration, then replace the in-memory one
AvfSave(ok) ==
    /\ pc = "avf_save"
    /\ log' = Append(log, Call("save", avf.vid, Res(ok)))
    /\ pc' = Try(ok, "avf_restart")
    /\ disk' = NodeConfigSave(disk, avf.vid, avf.validator_config, ok)
    /\ IF pc' = "idle"
         THEN /\ ret' = Err("add_validator_fullnode", avf.vid, "", "save")
              /\ avf' = NoAvf
              /\ UNCHANGED validators
         ELSE /\ validators' = [validators EXCEPT ![avf.vid].config = avf.validator_config]
              /\ UNCHANGED <<avf, ret>>
    /\ UNCHANGED <<builder, genesis, genesis_waypoint, fullnodes, node_name_counter, dir, ws, answer, names,
                   pairings>>

\* line 311: restart the validator
AvfRestart(ok) ==
    /\ pc = "avf_restart"
    /\ log' = Append(log, Call("restart", avf.vid, Res(ok)))
    /\ validators' = [validators EXCEPT ![avf.vid] = NodeRestart(@, ok)]
    /\ pc' = Try(ok, "avf_new")
    /\ IF pc' = "idle"
         THEN /\ ret' = Err("add_validator_fullnode", avf.vid, "", "restart")
              /\ avf' = NoAvf
         ELSE UNCHANGED <<avf, ret>>
    /\ UNCHANGED <<builder, genesis, genesis_waypoint, disk, fullnodes, node_name_counter, dir, ws, answer,
                   names, pairings>>

\* lines 313-321: resolve the version (unwrap), build the node handle, check its identifier
AvfNew(newOk, peer_id) ==
    /\ pc = "avf_new"
    /\ IF avf.version \notin versions
         THEN /\ ret' = Panic("add_validator_fullnode", avf.vid, "", "unwrap on None")
              /\ pc' = "dropped"
              /\ dir' = drop(dir, TRUE)
              /\ avf' = NoAvf
              /\ log' = log
         ELSE IF ~newOk
         THEN /\ ret' = Err("add_validator_fullnode", avf.vid, "", "LocalNode::new")
              /\ pc' = "idle"
              /\ avf' = NoAvf
              /\ log' = Append(log, Call("LocalNode::new", avf.vid, "Err"))
              /\ dir' = dir
         ELSE IF peer_id # avf.vid
         THEN /\ ret' = Panic("add_validator_fullnode", avf.vid, "", "assert_eq")
              /\ pc' = "dropped"
              /\ dir' = drop(dir, TRUE)
              /\ avf' = NoAvf
              /\ log' = Append(log, Call("LocalNode::new", peer_id, "Ok"))
         ELSE /\ avf' = [avf EXCEPT !.peer_id = peer_id]
              /\ pc' = "avf_start"
              /\ log' = Append(log, Call("LocalNode::new", peer_id, "Ok"))
              /\ UNCHANGED <<ret, dir>>
    /\ UNCHANGED <<builder, genesis, genesis_waypoint, validators, disk, fullnodes, node_name_counter, ws,
                   answer, names, pairings>>

\* lines 322-326: start the full node, insert it, return its identifier
AvfStart(ok) ==
    /\ pc = "avf_start"
    /\ log' = Append(log, Call("start", avf.peer_id, Res(ok)))
    /\ IF ok
         THEN /\ fullnodes' = Insert(fullnodes, avf.peer_id,
                                     NodeStart(NewNode(avf.version, avf.fullnode_config), TRUE))
              /\ ret' = Ok("add_validator_fullnode", avf.vid, "", avf.peer_id)
              /\ pairings' = [pairings EXCEPT ![avf.vid] = @ + 1]
         ELSE /\ ret' = Err("add_validator_fullnode", avf.vid, "", "start")
              /\ UNCHANGED <<fullnodes, pairings>>
    /\ pc' = "idle"
    /\ avf' = NoAvf
    /\ UNCHANGED <<builder, genesis, genesis_waypoint, validators, disk, node_name_counter, dir, ws, answer,
                   names>>

\* ---- add_fullnode (add_full_node), lines 329-353 ----
\* FreshPeerIds with an identity that a full node of the set may have already
FreshPeerIds_Any == PfnIds

\* the identity generated for a new public full node: one that no node has
\* (identities are interchangeable, so the least unused one stands for any)
FreshPeerIds ==
    {p \in PfnIds \ DOMAIN fullnodes : \A q \in PfnIds \ DOMAIN fullnodes : p <= q}

\* fails: "config" (public_fullnode fails), "new" (LocalNode::new fails),
\* "start" (start fails) or "none" (nothing fails); peer_id: the identity the new
\* configuration was generated with, which no other node has
AddFullNode(version, peer_id, fails) ==
    /\ pc = "idle"
    /\ node_name_counter < MaxCounter
    /\ peer_id \in FreshPeerIds
    /\ node_name_counter' = NextCounter(node_name_counter)
    /\ names' = Append(names, ToString(node_name_counter))
    /\ IF fails = "config"
         THEN /\ ret' = Err("add_full_node", 0, "", "public_fullnode")
              /\ log' = <<Call("public_fullnode", 0, "Err")>>
              /\ UNCHANGED <<fullnodes, pc, dir>>
         ELSE IF version \notin versions
         THEN /\ ret' = Panic("add_full_node", 0, "", "unwrap on None")
              /\ log' = <<Call("public_fullnode", 0, "Ok")>>
              /\ pc' = "dropped"
              /\ dir' = drop(dir, TRUE)
              /\ UNCHANGED fullnodes
         ELSE IF fails = "new"
         THEN /\ ret' = Err("add_full_node", 0, "", "LocalNode::new")
              /\ log' = <<Call("public_fullnode", 0, "Ok"), Call("LocalNode::new", 0, "Err")>>
              /\ UNCHANGED <<fullnodes, pc, dir>>
         ELSE IF fails = "start"
         THEN /\ ret' = Err("add_full_node", 0, "", "start")
              /\ log' = <<Call("public_fullnode", 0, "Ok"), Call("LocalNode::new", peer_id, "Ok"),
                          Call("start", peer_id, "Err")>>
              /\ UNCHANGED <<fullnodes, pc, dir>>
         ELSE /\ fullnodes' = Insert(fullnodes, peer_id,
                                     NodeStart(NewNode(version,
                                        FullnodeNodeConfig(ToString(node_name_counter),
                                                           genesis_args.waypoint,
                                                           genesis_args.genesis)), TRUE))
              /\ ret' = Ok("add_full_node", 0, "", peer_id)
              /\ log' = <<Call("public_fullnode", 0, "Ok"), Call("LocalNode::new", peer_id, "Ok"),
                          Call("start", peer_id, "Ok")>>
              /\ UNCHANGED <<pc, dir>>
    /\ UNCHANGED <<builder, genesis, genesis_waypoint, validators, disk, avf, ws, answer, pairings>>

\* ---- remove_full_node, lines 474-480 ----
\* Remove that drops every entry
Remove_Clear(fns, id) == <<>>

\* line 475: self.fullnodes.remove(&id)
Remove(fns, id) == [p \in (DOMAIN fns) \ {id} |-> fns[p]]

RemoveFullNode(id) ==
    /\ pc = "idle"
    /\ fullnodes' = Remove(fullnodes, id)
    /\ log' = IF id \in DOMAIN fullnodes THEN <<Call("stop", id, "Ok")>> ELSE <<>>
    /\ ret' = Ok("remove_full_node", id, "", 0)
    /\ UNCHANGED <<builder, genesis, genesis_waypoint, validators, disk, node_name_counter, dir, pc, avf, ws,
                   answer, names, pairings>>

\* ---- upgrade_validator, lines 429-440 ----
\* UpgradeCheck with the validator looked up before the version is resolved
UpgradeCheck_IdFirst(reg, vs, id, version) ==
    IF id \notin DOMAIN vs THEN "Invalid id"
    ELSE IF version \notin reg THEN "Invalid version"
    ELSE "upgrade"

\* lines 430-438: the version is resolved, then the validator is looked up
UpgradeCheck(reg, vs, id, version) ==
    IF version \notin reg THEN "Invalid version"
    ELSE IF id \notin DOMAIN vs THEN "Invalid id"
    ELSE "upgrade"

UpgradeValidator(id, version, ok) ==
    /\ pc = "idle"
    /\ LET check == UpgradeCheck(versions, validators, id, version)
       IN  IF check # "upgrade"
             THEN /\ ok
                  /\ ret' = Err("upgrade_validator", id, version, check)
                  /\ log' = <<>>
                  /\ UNCHANGED validators
             ELSE /\ validators' = [v \in DOMAIN validators |->
                                       IF v = id THEN NodeUpgrade(validators[v], version, ok)
                                                 ELSE validators[v]]
                  /\ log' = <<Call("upgrade", id, Res(ok))>>
                  /\ ret' = IF ok THEN Ok("upgrade_validator", id, version, 0)
                                  ELSE Err("upgrade_validator", id, version, "upgrade")
    /\ UNCHANGED <<builder, genesis, genesis_waypoint, disk, fullnodes, node_name_counter, dir, pc, avf, ws,
                   answer, names, pairings>>

\* ---- logs_location, lines 498-501 ----
LogsLocation ==
    /\ pc = "idle"
    /\ dir' = logs_location_dir(dir)
    /\ ret' = [Ok("logs_location", 0, "", 0) EXCEPT !.path = dir'.path, !.was = dir.kind]
    /\ log' = <<>>
    /\ UNCHANGED <<builder, genesis, genesis_waypoint, validators, disk, fullnodes, node_name_counter, pc, avf,
                   ws, answer, names, pairings>>

\* ---- add_validator and remove_validator, lines 462-468 ----
\* neither reads its arguments (_version, _template, _id)
AddValidator ==
    /\ pc = "idle"
    /\ ret' = [Running("add_validator", 0, "") EXCEPT
                  !.status = Unimplemented, !.err = "not yet implemented"]
    /\ pc' = IF ret'.status = "panic" THEN "dropped" ELSE "idle"
    /\ dir' = IF ret'.status = "panic" THEN drop(dir, TRUE) ELSE dir
    /\ log' = <<>>
    /\ UNCHANGED <<builder, genesis, genesis_waypoint, validators, disk, fullnodes, node_name_counter,
                   avf, ws, answer, names, pairings>>

RemoveValidator ==
    /\ pc = "idle"
    /\ ret' = [Running("remove_validator", 0, "") EXCEPT
                  !.status = Unimplemented, !.err = "not yet implemented"]
    /\ pc' = IF ret'.status = "panic" THEN "dropped" ELSE "idle"
    /\ dir' = IF ret'.status = "panic" THEN drop(dir, TRUE) ELSE dir
    /\ log' = <<>>
    /\ UNCHANGED <<builder, genesis, genesis_waypoint, validators, disk, fullnodes, node_name_counter,
                   avf, ws, answer, names, pairings>>

\* ---- Drop for LocalSwarm, lines 392-399: the owner lets go of the swarm ----
Drop ==
    /\ pc = "idle"
    /\ pc' = "dropped"
    /\ dir' = drop(dir, FALSE)
    /\ ret' = [Ok("drop", 0, "", 0) EXCEPT !.was = dir.kind]
    /\ log' = <<>>
    /\ UNCHANGED <<builder, genesis, genesis_waypoint, validators, disk, fullnodes, node_name_counter,
                   avf, ws, answer, names, pairings>>

\* the identifiers a caller passes: those of the validators, and those of the
\* public full nodes, which are no validator's
CallerIds == DOMAIN validators \cup PfnIds

Next ==
    \/ Launch
    \/ LaunchStart
    \/ WsProbe
    \/ WsCheck
    \/ Connectivity
    \/ Liveness
    \/ \E version \in VersionLabels, id \in CallerIds, genOk \in BOOLEAN :
          AddValidatorFullnode(version, id, genOk)
    \/ \E ok \in BOOLEAN : AvfSave(ok)
    \/ \E ok \in BOOLEAN : AvfRestart(ok)
    \/ \E ok \in BOOLEAN, id \in CallerIds : AvfNew(ok, id)
    \/ \E ok \in BOOLEAN : AvfStart(ok)
    \/ \E version \in VersionLabels, id \in PfnIds,
          fails \in {"none", "config", "new", "start"} : AddFullNode(version, id, fails)
    \/ \E id \in CallerIds : RemoveFullNode(id)
    \/ \E id \in CallerIds, version \in VersionLabels, ok \in BOOLEAN :
          UpgradeValidator(id, version, ok)
    \/ LogsLocation
    \/ AddValidator
    \/ RemoveValidator
    \/ Drop

Spec == Init /\ [][Next]_vars

(***************************************************************************)
(* Properties                                                              *)
(***************************************************************************)

\* C1: Startup Wait fails fast.  When the health check of a validator that is
\* not done answers NotRunning, wait_for_startup returns at once with an error
\* naming that validator: the wait is over (no further health check, no sleep,
\* no further round) whatever the round and whoever is still pending.
Thm_C1 ==
    [][(pc = "ws_probe" /\ answer = "NotRunning") =>
          /\ ~ws.done[ws.j]
          /\ pc' = "idle"
          /\ ws' = NoWs
          /\ ret' = [Err("launch", 0, "", "is not running") EXCEPT
                        !.val = ws.order[ws.j], !.cause = "NotRunning", !.round = ws.i]
          /\ validators' = validators]_vars

Wit_C1 ==
    /\ pc = "idle"
    /\ ret.op = "launch" /\ ret.status = "err" /\ ret.cause = "NotRunning"
    /\ ret.val \in DOMAIN validators
    /\ ret.round >= 1 /\ ret.round < NumAttempts - 1
    /\ NumValidators >= 2

\* C2: launch succeeds when nothing goes wrong.  For every validator count, as
\* long as each start answers Ok the loop goes on to the wait; a round of the
\* wait (one of at most NumAttempts) in which no health check failed ends the
\* wait with success; and when connectivity and liveness answer Ok launch
\* returns Ok.
Thm_C2 ==
    [][/\ (pc = "launch_start" /\ answer = "Ok") => pc' \in {"launch_start", "ws_probe"}
       /\ (pc = "ws_probe" /\ answer = "Ok") =>
              /\ pc' \in {"ws_probe", "ws_check"}
              /\ ws'.failure = ws.failure
              /\ ws'.i = ws.i
       /\ pc \in {"ws_probe", "ws_check"} => ws.i < NumAttempts
       /\ (pc = "ws_check" /\ ~ws.failure) => pc' = "connectivity"
       /\ (pc = "connectivity" /\ answer = "Ok") => pc' = "liveness"
       /\ (pc = "liveness" /\ answer = "Ok") =>
              (pc' = "idle" /\ ret'.op = "launch" /\ ret'.status = "ok")]_vars

Wit_C2 ==
    /\ pc = "idle"
    /\ ret.op = "launch" /\ ret.status = "ok"
    /\ ret.round >= 1
    /\ NumValidators >= 2
    /\ \A v \in DOMAIN validators : validators[v].running

\* the step is a call of add_validator_fullnode for validator_peer_id
IsAvfCall(validator_peer_id) ==
    /\ pc = "idle"
    /\ ret'.op = "add_validator_fullnode"
    /\ ret'.id = validator_peer_id

\* C3: a call of add_validator_fullnode for a validator that already has its
\* full node returns the 'already configured' error and changes nothing: the
\* Full-Node Set, the validators (configuration, process), the persisted
\* configurations and the name counter are as before, and no collaborator is
\* called (the validator is not restarted).
Thm_C3 ==
    [][\A v \in DOMAIN validators :
          (IsAvfCall(v) /\ v \in DOMAIN fullnodes) =>
              /\ ret' = Err("add_validator_fullnode", v, "", "already configured")
              /\ pc' = "idle"
              /\ log' = <<>>
              /\ UNCHANGED <<fullnodes, validators, disk, node_name_counter, names>>]_vars

Wit_C3 ==
    /\ pc = "idle"
    /\ ret.op = "add_validator_fullnode" /\ ret.err = "already configured"
    /\ ret.id \in DOMAIN fullnodes
    /\ pairings[ret.id] = 1
    /\ fullnodes[ret.id].running

\* C4: a successful add_validator_fullnode for validator A returns A's
\* identifier and has changed A's persisted configuration; every other
\* validator B has the in-memory and persisted configuration, the running state
\* and the version it had before the call, and no collaborator call was made on
\* another node.
Thm_C4 ==
    [][(pc = "avf_start" /\ ret'.status = "ok") =>
          /\ ret'.val = avf.vid
          /\ ret'.val = ret'.id
          /\ disk'[avf.vid] # avf.before.disk[avf.vid]
          /\ \A b \in (DOMAIN validators) \ {avf.vid} :
                /\ validators'[b] = avf.before.validators[b]
                /\ disk'[b] = avf.before.disk[b]
          /\ \A k \in 1..Len(log') : log'[k].node = avf.vid]_vars

Wit_C4 ==
    /\ pc = "idle"
    /\ ret.op = "add_validator_fullnode" /\ ret.status = "ok"
    /\ NumValidators >= 2
    /\ disk[ret.id].vfn # <<>>
    /\ \E b \in (DOMAIN validators) \ {ret.id} : disk[b] = DefaultConfig

\* the log is that of a call of add_validator_fullnode that got past its checks
AvfLog == Len(log) > 0 /\ log[1].call = "validator_fullnode"

\* C5: in add_validator_fullnode the full node is started only after the
\* validator's configuration was saved and the validator restarted, both with
\* success; when the save or the restart failed, the full node is never started
\* and the Full-Node Set gets no entry.
Thm_C5 ==
    AvfLog =>
      /\ \A k \in 1..Len(log) :
            log[k].call = "start" =>
               \E a, b \in 1..(k - 1) :
                  /\ a < b
                  /\ log[a] = Call("save", log[1].node, "Ok")
                  /\ log[b] = Call("restart", log[1].node, "Ok")
      /\ (\E k \in 1..Len(log) : log[k].call \in {"save", "restart"} /\ log[k].res = "Err") =>
            /\ \A k \in 1..Len(log) : log[k].call # "start"
            /\ log[1].node \notin DOMAIN fullnodes
            /\ pc = "idle" /\ ret.status = "err"

Wit_C5 ==
    /\ AvfLog
    /\ pc = "idle" /\ ret.status = "ok"
    /\ log[Len(log)] = Call("start", ret.id, "Ok")
    /\ ret.id \in DOMAIN fullnodes

\* C6: generated names are pairwise distinct.  The counter never decreases, it
\* grows by one exactly when a name is generated (also by a call that fails
\* afterwards), and no name is generated twice, also after a removal.
Thm_C6 ==
    [][/\ node_name_counter' >= node_name_counter
       /\ (names' # names) <=> (node_name_counter' = node_name_counter + 1)
       /\ (names' # names) => (Len(names') = Len(names) + 1 /\ SubSeq(names', 1, Len(names)) = names)
       /\ \A a, b \in 1..Len(names') : a # b => names'[a] # names'[b]]_vars

Wit_C6 ==
    /\ Len(names) >= 2
    /\ \E v \in DOMAIN pairings : pairings[v] >= 2
    /\ names[1] # names[2]

\* C7: remove_full_node of an identifier that is not in the Full-Node Set
\* returns Ok and changes nothing (no node is stopped).
Thm_C7 ==
    [][\A id \in PeerIds :
          (pc = "idle" /\ ret'.op = "remove_full_node" /\ ret'.id = id
             /\ id \notin DOMAIN fullnodes) =>
              /\ ret'.status = "ok"
              /\ pc' = "idle"
              /\ log' = <<>>
              /\ UNCHANGED <<fullnodes, validators, disk, node_name_counter, names, dir>>]_vars

Wit_C7 ==
    /\ pc = "idle"
    /\ ret.op = "remove_full_node" /\ ret.status = "ok"
    /\ log = <<>>
    /\ ret.id \notin DOMAIN fullnodes
    /\ fullnodes # <<>>

\* C8: upgrade_validator with a version that is not in the registry returns
\* 'Invalid version', for a known and for an unknown identifier alike, and
\* leaves every validator (process, version, configuration) alone: upgrade is
\* not called on the node handle.
Thm_C8 ==
    [][(pc = "idle" /\ ret'.op = "upgrade_validator" /\ ret'.version \notin versions) =>
          /\ ret'.status = "err" /\ ret'.err = "Invalid version"
          /\ pc' = "idle"
          /\ log' = <<>>
          /\ UNCHANGED <<validators, disk, fullnodes, node_name_counter, dir>>]_vars

Wit_C8 ==
    /\ pc = "idle"
    /\ ret.op = "upgrade_validator" /\ ret.err = "Invalid version"
    /\ ret.id \in DOMAIN validators
    /\ validators[ret.id].running
    /\ validators[ret.id].version # ret.version

\* C9: add_validator_fullnode and upgrade_validator for an identifier that is
\* not a validator return an error and change nothing.
Thm_C9 ==
    [][\A id \in PeerIds \ DOMAIN validators :
          (pc = "idle" /\ ret'.op \in {"add_validator_fullnode", "upgrade_validator"}
             /\ ret'.id = id) =>
              /\ ret'.status = "err"
              /\ ret'.err \in {"no validator with peer_id", "Invalid id", "Invalid version"}
              /\ pc' = "idle"
              /\ log' = <<>>
              /\ UNCHANGED <<validators, disk, fullnodes, node_name_counter, names, dir>>]_vars

Wit_C9 ==
    /\ pc = "idle"
    /\ ret.status = "err"
    /\ ret.err \in {"no validator with peer_id", "Invalid id"}
    /\ ret.id \notin DOMAIN validators
    /\ fullnodes # <<>>

\* C10 as stated: add_validator_fullnode succeeds at most once for a validator.
Orig_C10 == \A v \in DOMAIN pairings : pairings[v] <= 1

\* C10, amended: add_validator_fullnode succeeds only for a validator that has
\* no full node in the Full-Node Set at the time of the call, a call for a
\* validator that has one is rejected, and no entry of the Full-Node Set is
\* ever overwritten; a pairing is counted only when the validator goes from
\* having no entry to having one.
Thm_C10 ==
    [][/\ (pc = "avf_start" /\ ret'.status = "ok") => avf.vid \notin DOMAIN fullnodes
       /\ \A v \in DOMAIN validators :
             (IsAvfCall(v) /\ v \in DOMAIN fullnodes) => (ret'.status = "err" /\ pc' = "idle")
       /\ \A p \in (DOMAIN fullnodes) \cap (DOMAIN fullnodes') : fullnodes'[p] = fullnodes[p]
       /\ \A v \in DOMAIN pairings :
             pairings'[v] > pairings[v] => (v \notin DOMAIN fullnodes /\ v \in DOMAIN fullnodes')]_vars

Wit_C10 ==
    /\ pc = "idle"
    /\ ret.op = "add_validator_fullnode" /\ ret.err = "already configured"
    /\ pairings[ret.id] = 2

\* C11 as stated: Startup Wait is bounded by the deadline of launch, so that no
\* validator is probed once the deadline has passed.
Orig_C11 == pc = "ws_probe" => ~ws.late

\* C11, what wait_for_startup does: it is bounded by its number of attempts
\* only, and probes a validator in its last round although the deadline passed
\* in an earlier one.
Wit_C11 ==
    /\ pc = "ws_probe"
    /\ ws.late
    /\ ws.i = NumAttempts - 1
    /\ ws.probed = {}

\* C12: the stages of launch run one after the other.  The wait begins only
\* when the last validator was started with success, the connectivity wait only
\* at the end of a round of the wait with every validator done, the liveness
\* check only after the connectivity wait answered Ok, and launch returns Ok only
\* after the liveness check answered Ok.  A start that fails ends launch with
\* that validator's error before any health check.
Thm_C12 ==
    [][/\ pc' = "launch_start" => pc \in {"idle", "launch_start"}
       /\ pc' = "ws_probe" =>
              \/ pc = "launch_start" /\ answer = "Ok" /\ ws.k = Len(ws.order)
                   /\ \A v \in DOMAIN validators : validators'[v].running
              \/ pc \in {"ws_probe", "ws_check"}
       /\ pc' = "ws_check" => pc = "ws_probe"
       /\ pc' = "connectivity" => (pc = "ws_check" /\ AllDone(ws.done))
       /\ pc' = "liveness" => (pc = "connectivity" /\ answer = "Ok")
       /\ (pc # "idle" /\ ret'.op = "launch" /\ ret'.status = "ok") =>
              (pc = "liveness" /\ answer = "Ok" /\ AllDone(ws.done))
       /\ (pc = "launch_start" /\ answer # "Ok") =>
              /\ pc' = "idle"
              /\ ret' = [Err("launch", 0, "", "start") EXCEPT
                            !.val = ws.order[ws.k], !.cause = answer]
              /\ ws.probed = {} /\ ws.done = <<>>
              /\ ws' = NoWs]_vars

Wit_C12 ==
    /\ pc = "idle"
    /\ ret.op = "launch" /\ ret.err = "start"
    /\ NumValidators >= 2
    /\ ~validators[ret.val].running
    /\ \E v \in DOMAIN validators : validators[v].running

\* what is left of the wait at position p with locals w: the rounds not yet
\* begun and, in the current one, the validators not yet passed
WsRank(p, w) ==
    (NumAttempts - w.i) * (Len(w.done) + 2)
        - (IF p = "ws_probe" THEN w.j ELSE Len(w.done) + 1)

\* C13: Startup Wait ends within NumAttempts rounds.  Its rounds are numbered
\* below NumAttempts and every step of the wait brings it closer to its end; at
\* the end of a round it returns success when every validator is done, and
\* only then; otherwise it goes to the next round, or after the last one
\* returns the timeout error.
Thm_C13 ==
    [][(pc \in {"ws_probe", "ws_check"}) =>
          /\ ws.i < NumAttempts
          /\ pc' \in {"ws_probe", "ws_check"} =>
                 (WsRank(pc', ws') < WsRank(pc, ws) /\ WsRank(pc', ws') >= 0)
          /\ (pc = "ws_check" /\ AllDone(ws.done)) => pc' = "connectivity"
          /\ pc' = "connectivity" => (pc = "ws_check" /\ AllDone(ws.done))
          /\ (pc = "ws_check" /\ ~AllDone(ws.done) /\ ws.i < NumAttempts - 1) =>
                 (pc' = "ws_probe" /\ ws'.i = ws.i + 1 /\ ws'.done = ws.done)
          /\ (pc = "ws_check" /\ ~AllDone(ws.done) /\ ws.i = NumAttempts - 1) =>
                 /\ pc' = "idle"
                 /\ ret'.op = "launch" /\ ret'.status = "err"
                 /\ ret'.err = "Launching Swarm timed out"]_vars

Wit_C13 ==
    /\ pc = "idle"
    /\ ret.op = "launch" /\ ret.err = "Launching Swarm timed out"
    /\ ret.round = NumAttempts - 1
    /\ NumValidators >= 2

\* C14: the waypoint and the genesis transaction are those of build and never
\* change.  When the swarm is built no node runs yet; no step of launch,
\* add_full_node, add_validator_fullnode, remove_full_node or upgrade_validator
\* changes either value; and every node of the Full-Node Set is configured with
\* exactly the swarm's waypoint and genesis transaction.
Thm_C14 ==
    /\ \A v \in DOMAIN validators : ~validators[v].running
    /\ fullnodes = <<>>
    /\ genesis = GenesisBuilder(NumValidators).genesis
    /\ genesis_waypoint = GenesisBuilder(NumValidators).waypoint
    /\ [][/\ genesis' = genesis
          /\ genesis_waypoint' = genesis_waypoint
          /\ \A p \in DOMAIN fullnodes' :
                /\ fullnodes'[p].config.waypoint = genesis_waypoint
                /\ fullnodes'[p].config.genesis = genesis]_vars

Wit_C14 ==
    /\ pc = "idle"
    /\ \E p \in PfnIds \cap DOMAIN fullnodes : fullnodes[p].config.genesis = genesis
    /\ \E v \in DOMAIN validators \cap DOMAIN fullnodes :
          /\ fullnodes[v].config.waypoint = genesis_waypoint
          /\ validators[v].version # fullnodes[v].version
    /\ ret.op = "upgrade_validator" /\ ret.status = "ok"

\* the step is an add_full_node or add_validator_fullnode that returns Ok
IsAddOk ==
    /\ pc \in {"idle", "avf_start"}
    /\ ret'.op \in {"add_full_node", "add_validator_fullnode"}
    /\ ret'.status = "ok"

\* C15: the Full-Node Set stays well formed.  Every entry is a node handle
\* whose process was started, no two identifiers share a node, the full node
\* entered under a validator's identifier is the one that validator's
\* configuration is linked to, a successful add enters exactly one identifier
\* that was not in the set, and no step changes an entry that stays in the set.
Thm_C15 ==
    [][/\ \A p \in DOMAIN fullnodes' : fullnodes'[p].running
       /\ \A p, q \in DOMAIN fullnodes' : p # q => fullnodes'[p].name # fullnodes'[q].name
       /\ \A v \in DOMAIN validators' \cap DOMAIN fullnodes' :
             fullnodes'[v].name = validators'[v].config.vfn
       /\ IsAddOk =>
             /\ ret'.val \notin DOMAIN fullnodes
             /\ DOMAIN fullnodes' = DOMAIN fullnodes \cup {ret'.val}
       /\ \A p \in DOMAIN fullnodes \cap DOMAIN fullnodes' : fullnodes'[p] = fullnodes[p]]_vars

Wit_C15 ==
    /\ pc = "idle"
    /\ ret.op = "add_full_node" /\ ret.status = "ok"
    /\ ret.val \in PfnIds \cap DOMAIN fullnodes
    /\ \E v \in DOMAIN validators \cap DOMAIN fullnodes : fullnodes[v].running

\* C16: promotion is idempotent.  Whatever the directory of the swarm is,
\* persist makes it persistent at the path it has, persist of the result is the
\* result again, and persist of a persistent directory is that directory.
Thm_C16 ==
    /\ persist(dir).kind = "Persistent"
    /\ persist(dir).path = dir.path
    /\ persist(persist(dir)) = persist(dir)
    /\ dir.kind = "Persistent" => persist(dir) = dir
    /\ (ret.op = "logs_location" /\ pc = "idle") => (dir = persist(dir) /\ ret.path = dir.path)

Wit_C16 ==
    /\ pc = "idle"
    /\ ret.op = "logs_location" /\ ret.was = "Persistent"
    /\ dir = persist(NewDirectory("Temporary"))

\* C17: the mode of the working directory changes in one direction only.  A
\* persistent directory, built so or promoted, is left as it is by every step;
\* a step that changes the directory turns a temporary one into a persistent
\* one at the same path, which therefore happens at most once.
Thm_C17 ==
    [][/\ dir.kind = "Persistent" => dir' = dir
       /\ dir' # dir =>
             /\ dir.kind = "Temporary"
             /\ dir' = [kind |-> "Persistent", path |-> dir.path]]_vars

Wit_C17 ==
    /\ pc = "idle"
    /\ dir = persist(NewDirectory("Temporary"))
    /\ ret.op = "add_full_node" /\ ret.status = "ok"
    /\ \E v \in DOMAIN validators : validators[v].running

\* C18: logs_location promotes the working directory and returns the path it
\* had, and leaves everything else of the swarm as it was; a swarm dropped by a
\* panic has its directory promoted in the same way; a swarm dropped without a
\* panic keeps its directory as it is, temporary if it was never promoted.
Thm_C18 ==
    [][/\ (pc = "idle" /\ ret'.op = "logs_location") =>
             /\ ret'.status = "ok" /\ ret'.path = dir.path
             /\ dir' = [kind |-> "Persistent", path |-> dir.path]
             /\ pc' = "idle"
             /\ UNCHANGED <<validators, fullnodes, node_name_counter, disk, genesis,
                            genesis_waypoint, names, pairings>>
       /\ (pc # "dropped" /\ ret'.status = "panic") =>
             /\ pc' = "dropped"
             /\ dir' = [kind |-> "Persistent", path |-> dir.path]
       /\ (pc # "dropped" /\ pc' = "dropped" /\ ret'.status # "panic") =>
             /\ ret'.op = "drop"
             /\ dir' = dir]_vars

Wit_C18 ==
    /\ pc = "idle"
    /\ ret.op = "logs_location" /\ ret.was = "Temporary"
    /\ ret.path = NewDirectory("Temporary").path
    /\ dir.kind = "Persistent"
    /\ fullnodes # <<>>
    /\ \E v \in DOMAIN validators : validators[v].running

\* C19: add_validator and remove_validator never return.  The call panics, the
\* caller gets no value and makes no further call, and the Validator Set has
\* the entries it had; no step of any operation adds or removes a validator.
Thm_C19 ==
    [][/\ (pc = "idle" /\ ret'.op \in {"add_validator", "remove_validator"}) =>
             /\ ret'.status = "panic"
             /\ pc' = "dropped"
             /\ validators' = validators
             /\ fullnodes' = fullnodes
       /\ DOMAIN validators' = DOMAIN validators
       /\ pc = "dropped" => UNCHANGED vars]_vars

Wit_C19 ==
    /\ pc = "dropped"
    /\ ret.op = "remove_validator" /\ ret.status = "panic"
    /\ NumValidators >= 2
    /\ fullnodes # <<>>

\* C20 as stated: when the version lookup of build misses (the selected version
\* is not in the registry, or none is selected and the registry is empty), build
\* returns an error and no swarm; when none is selected and the registry is not
\* empty, the swarm that build returns runs the greatest label of the registry.
Orig_C20 ==
    [][(pc = "builder" /\ ret'.op = "build") =>
          /\ InitialVersion(builder).status = "panic" =>
                (ret'.status = "err" /\ pc' = "failed" /\ IsSwarm(NoSwarm)')
          /\ (builder.initial_version = None /\ builder.versions # {} /\ ret'.status = "ok") =>
                /\ ret'.version = MaxVersion(builder.versions)
                /\ \A v \in DOMAIN validators' :
                      validators'[v].version = MaxVersion(builder.versions)]_vars

\* C20, what build does: with a selected version that is not in the registry it
\* panics when it unwraps the lookup.
Wit_C20 ==
    /\ pc = "failed"
    /\ ret.op = "build" /\ ret.status = "panic"
    /\ ret.version # None
    /\ ret.val >= 2
    /\ IsSwarm(NoSwarm)

\* C21: build overrides the poll count exactly for a single validator.  The
\* template that the genesis builder is given has the poll count
\* PollCountOverride when the number of validators is 1, whatever the
\* template's own; for every greater number it is the builder's template,
\* unchanged.
Thm_C21 ==
    [][(pc = "builder" /\ ret'.op = "build" /\ log' # <<>>) =>
          LET n == builder.number_of_validators
              given == log'[1].template
          IN  /\ log'[1].node = n
              /\ n = 1 => given.quorum_store_poll_count = PollCountOverride
              /\ n > 1 => given = builder.template
              /\ given # builder.template => n = 1]_vars

Wit_C21 ==
    /\ pc = "idle"
    /\ ret.op = "build" /\ ret.status = "ok"
    /\ ret.val >= 2
    /\ log[1].template.quorum_store_poll_count # PollCountOverride
    /\ NumValidators = ret.val

\* C22: a transient failure ends the round, not the wait.  When a health check
\* answers Failure the validator stays pending, launch does not return, and the
\* round goes straight to its end: no validator is checked after the failure in
\* this round.  After a round with a failure, if an attempt is left, the next
\* round begins with the first pending validator of the iteration order, and
\* within a round no pending validator is passed over.
Thm_C22 ==
    [][/\ (pc = "ws_probe" /\ answer = "Failure") =>
             /\ pc' = "ws_check"
             /\ ws'.done = ws.done /\ ~ws.done[ws.j]
             /\ ws'.failure
             /\ ws'.probed = ws.probed \cup {ws.order[ws.j]}
             /\ ws'.i = ws.i
             /\ ret' = ret
       /\ (pc = "ws_check" /\ ws.failure) =>
             /\ ~AllDone(ws.done)
             /\ ws.i < NumAttempts - 1 =>
                   /\ pc' = "ws_probe"
                   /\ ws'.i = ws.i + 1
                   /\ ws'.done = ws.done
                   /\ ws'.probed = {}
                   /\ ret' = ret
       /\ pc' = "ws_probe" =>
             /\ ws'.j \in 1..Len(ws'.done) /\ ~ws'.done[ws'.j]
             /\ \A x \in 1..(ws'.j - 1) :
                   ws'.done[x] \/ (pc = "ws_probe" /\ x <= ws.j /\ ws'.i = ws.i)]_vars

Wit_C22 ==
    /\ pc = "ws_probe"
    /\ ws.i >= 1
    /\ NumValidators >= 2
    /\ ws.j = 1
    /\ \A x \in 1..Len(ws.done) : ~ws.done[x]
    /\ ws.probed = {}

\* C23: a validator that is done stays done and is not checked again.  During
\* the wait the iteration order is fixed, so a flag belongs to the same
\* validator in every round; no flag is ever cleared; the validator that is
\* checked is not done and was not yet checked in this round; and a check sets
\* at most the flag of the validator checked.  With fewer than NumAttempts
\* rounds begun before the last, a validator is checked NumAttempts times at most.
Thm_C23 ==
    [][(pc \in {"ws_probe", "ws_check"}) =>
          /\ ws.i < NumAttempts
          /\ pc' \in {"ws_probe", "ws_check", "connectivity"} =>
                /\ ws'.order = ws.order
                /\ \A x \in 1..Len(ws.done) : ws.done[x] => ws'.done[x]
          /\ pc = "ws_probe" =>
                /\ ~ws.done[ws.j]
                /\ ws.order[ws.j] \notin ws.probed
                /\ pc' \in {"ws_probe", "ws_check"} =>
                      /\ ws'.probed = ws.probed \cup {ws.order[ws.j]}
                      /\ \A x \in 1..Len(ws.done) :
                            (ws'.done[x] /\ ~ws.done[x]) => (x = ws.j /\ answer = "Ok")
          /\ pc = "ws_check" => ws'.done = ws.done \/ pc' = "idle"]_vars

Wit_C23 ==
    /\ pc = "ws_probe"
    /\ ws.i >= 2
    /\ ws.done[1] /\ ws.j = 2
    /\ ws.probed = {}
    /\ ws.order[1] > ws.order[2]

\* C24: of the health check's errors only Failure is retried.  Unknown ends the
\* wait exactly as NotRunning does: launch returns at once with the 'is not
\* running' error that names the validator checked, with no further check,
\* sleep or round; a health check ends the wait with an error for these two
\* answers only, and Failure leaves launch running.
Thm_C24 ==
    [][(pc = "ws_probe") =>
          /\ answer \in {"Unknown", "NotRunning"} =>
                /\ pc' = "idle"
                /\ ws' = NoWs
                /\ ret' = [Err("launch", 0, "", "is not running") EXCEPT
                              !.val = ws.order[ws.j], !.cause = answer, !.round = ws.i]
                /\ UNCHANGED <<validators, disk, fullnodes, node_name_counter>>
          /\ answer = "Failure" => (pc' = "ws_check" /\ ret' = ret)
          /\ pc' = "idle" => answer \in {"Unknown", "NotRunning"}]_vars

Wit_C24 ==
    /\ pc = "idle"
    /\ ret.op = "launch" /\ ret.status = "err" /\ ret.err = "is not running"
    /\ ret.cause = "Unknown"
    /\ ret.round >= 1
    /\ NumValidators >= 2

\* C25: add_validator_fullnode is all-or-nothing with respect to the pairing:
\* whenever it ends without success (an error of save, restart, LocalNode::new
\* or start, or the panic of the version lookup), the validator's in-memory
\* configuration, its persisted configuration and the Full-Node Set are what
\* they were when the call began.  The code changes both configurations at
\* lines 309-310 and never reverts them, so the statement fails for every
\* failure after the save.
Orig_C25 ==
    [][(/\ pc \in {"avf_save", "avf_restart", "avf_new", "avf_start"}
        /\ pc' \in {"idle", "dropped"}
        /\ ret'.status # "ok") =>
          /\ validators'[avf.vid].config = avf.before.validators[avf.vid].config
          /\ disk'[avf.vid] = avf.before.disk[avf.vid]
          /\ fullnodes' = fullnodes]_vars

\* the restart of the validator has failed: its configuration, in memory and
\* on disk, names a full node, and the Full-Node Set has none for it
Wit_C25 ==
    /\ pc = "idle"
    /\ ret.op = "add_validator_fullnode" /\ ret.status = "err" /\ ret.err = "restart"
    /\ ret.id \in DOMAIN validators
    /\ validators[ret.id].config.vfn # <<>>
    /\ disk[ret.id].vfn # <<>>
    /\ ret.id \notin DOMAIN fullnodes

\* C26: whenever add_validator_fullnode returns, with success or with an error
\* or a panic, each validator's in-memory configuration equals the one persisted
\* at its config_path.  The save step writes the mutated configuration and then
\* replaces the in-memory one; when the save fails neither changes and the call
\* returns without a restart; the validator is restarted only once both hold
\* the mutated configuration, and the restart changes neither.
Thm_C26 ==
    /\ \A v \in DOMAIN validators : validators[v].config = disk[v]
    /\ [][/\ (ret'.op = "add_validator_fullnode" /\ pc' \in {"idle", "dropped"}) =>
                \A v \in DOMAIN validators' : validators'[v].config = disk'[v]
          /\ (pc = "avf_save") =>
                /\ validators[avf.vid].config = avf.before.validators[avf.vid].config
                /\ disk[avf.vid] = avf.before.disk[avf.vid]
                /\ \A i \in DOMAIN log' : log'[i].call # "restart"
                /\ pc' = "idle" =>
                      /\ ret'.err = "save"
                      /\ validators' = validators
                      /\ disk' = disk
                /\ pc' = "avf_restart" =>
                      /\ log'[Len(log')] = Call("save", avf.vid, "Ok")
                      /\ disk'[avf.vid] = avf.validator_config
                      /\ validators'[avf.vid].config = avf.validator_config
                      /\ avf.validator_config # avf.before.disk[avf.vid]
          /\ (pc = "avf_restart") =>
                /\ validators[avf.vid].config = avf.validator_config
                /\ disk[avf.vid] = avf.validator_config
                /\ log'[Len(log')].call = "restart"
                /\ validators'[avf.vid].config = avf.validator_config
                /\ disk' = disk]_vars

\* a failed save: the call has returned the save error with two validators in
\* the swarm; the validator's configuration is unlinked in memory and on disk
\* and it has no full node
Wit_C26 ==
    /\ pc = "idle"
    /\ ret.op = "add_validator_fullnode" /\ ret.status = "err" /\ ret.err = "save"
    /\ NumValidators >= 2
    /\ validators[ret.id].config = DefaultConfig
    /\ disk[ret.id] = DefaultConfig
    /\ ret.id \notin DOMAIN fullnodes
====
